---- MODULE Spec2Model ----
(***************************************************************************)
(* A model of TwitterBot (src/index.js, the current class, lines 1-1388):  *)
(* the session (browser, page, isReady), the operations that drive the     *)
(* page, the verification each of them runs, and page recovery.  The page  *)
(* and the platform behind it are the environment: everything the code     *)
(* reads from the DOM is chosen nondeterministically where it is read.     *)
(***************************************************************************)
EXTENDS Integers, Sequences, FiniteSets, TLC

(***************************************************************************)
(* Program constants.                                                      *)
(***************************************************************************)
MaxTweetLength == 280      \* text.length > 280 is rejected
MaxMedia == 4              \* media.length > 4 is rejected
PrefixLen == 20            \* normalizeText(tweetText).slice(0, 20)
FeedScan == 10             \* Math.min(cells.length, 10)
PollInterval == 500        \* pollInterval
PostTimeoutPlain == 8000   \* postTimeout without media
PostTimeoutMedia == 30000  \* postTimeout with media
MaxRetries == 5            \* MAX_RETRIES

(***************************************************************************)
(* Bounds of the model.                                                    *)
(***************************************************************************)
MaxPad == 10        \* filler cells that may precede the interesting ones
MaxHandlers == 1    \* dialog listeners left on a page before a new call
MaxLikeButtons == 2 \* like buttons a search page shows
MaxCount == 2       \* largest count passed to searchAndLike / getTweetComments
MaxReplies == 2     \* largest reply total a tweet page reports
MaxVisible == 2     \* comments one scan of the page returns

Null == 0           \* JavaScript null / a missing identifier

(***************************************************************************)
(* Strings are sequences of UTF-16 code units.  "Eh","El" are the two      *)
(* surrogates of an emoji of the stripped bands (e.g. U+1F916), "S" a BMP  *)
(* symbol of U+2600-27BF, "V" a variation selector, "J" the zero-width     *)
(* joiner; " " and "NL" are white space; the rest are ordinary letters.    *)
(***************************************************************************)
Letters == {"a", "b", "c"}
WhiteSpace == {" ", "NL"}
Decorative == {"Eh", "El", "S", "V", "J"}

\* n copies of the sequence s
Rep(s, n) == [i \in 1..(n * Len(s)) |-> s[((i - 1) % Len(s)) + 1]]

\* the replace(...) chain of normalizeText: every decorative code point is removed
StripDecorative(str) == SelectSeq(str, LAMBDA c : c \notin Decorative)

Min(S) == CHOOSE x \in S : \A y \in S : x <= y
Max(S) == CHOOSE x \in S : \A y \in S : x >= y

\* String.prototype.trim
Trim(str) ==
  LET inked == {i \in 1..Len(str) : str[i] \notin WhiteSpace}
  IN  IF inked = {} THEN <<>> ELSE SubSeq(str, Min(inked), Max(inked))

\* replace(/\s+/g, ' '): each maximal run of white space becomes one space
CollapseSpaces(str) ==
  LET marked == [i \in 1..Len(str) |->
                   IF str[i] \notin WhiteSpace THEN str[i]
                   ELSE IF i > 1 /\ str[i - 1] \in WhiteSpace THEN "drop" ELSE " "]
  IN  SelectSeq(marked, LAMBDA c : c # "drop")

\* a variant that leaves whitespace runs as they are
NormalizeNoCollapse(str) == Trim(StripDecorative(str))
\* normalizeText of the verification: the replaces, trim, the collapse
normalizeText(str) == CollapseSpaces(Trim(StripDecorative(str)))

\* String.prototype.slice(0, n)
Slice(str, n) == SubSeq(str, 1, IF Len(str) < n THEN Len(str) ELSE n)

\* String.prototype.includes
Includes(hay, needle) ==
  \E i \in 0..(Len(hay) - Len(needle)) :
    SubSeq(hay, i + 1, i + Len(needle)) = needle

(***************************************************************************)
(* A permalink is a path, a sequence of segments.                          *)
(* href.match(/\/status\/(\d+)/) yields the digits that follow the first   *)
(* "status" segment followed by digits, else null.                         *)
(***************************************************************************)
DigitStrings == {"1", "5", "6", "7", "8"}
NullId == "null"

StatusHits(href) ==
  {i \in 1..(Len(href) - 1) : href[i] = "status" /\ href[i + 1] \in DigitStrings}

ParseStatusId(href) ==
  IF StatusHits(href) = {} THEN NullId ELSE href[Min(StatusHits(href)) + 1]

(***************************************************************************)
(* A feed cell ([data-testid="cellInnerDiv"]): whether it holds a tweet    *)
(* article, whether the article has a tweetText element, that element's    *)
(* innerText, and the href of the anchor around the article's first        *)
(* status time link (<<>> when there is none: href = "").                  *)
(***************************************************************************)
Cell(article, hasText, text, href) ==
  [article |-> article, hasText |-> hasText, text |-> text, href |-> href]

\* the test of one cell in the verification loop
CellMatches(cell, searchText) ==
  /\ cell.article
  /\ cell.hasText
  /\ Includes(normalizeText(cell.text), searchText)

\* a variant that visits every cell
ScanRangeAll(cells) == 1..Len(cells)
\* the cells the loop visits: i < Math.min(cells.length, 10)
ScanRange(cells) == 1..(IF Len(cells) < FeedScan THEN Len(cells) ELSE FeedScan)

MatchingCells(tweetText, cells) ==
  LET searchText == Slice(normalizeText(tweetText), PrefixLen)
  IN  {i \in ScanRange(cells) : CellMatches(cells[i], searchText)}

\* the page.evaluate of postTweet's verification: {found, postId}
VerifyFeed(tweetText, cells) ==
  LET hits == MatchingCells(tweetText, cells)
  IN  IF hits = {}
      THEN [found |-> FALSE, postId |-> NullId]
      ELSE [found |-> TRUE, postId |-> ParseStatusId(cells[Min(hits)].href)]

(***************************************************************************)
(* The inputs the operations are called with.                              *)
(***************************************************************************)
MaxFiles == 2

Files == {"ok", "missing"}     \* a media path that exists / does not exist

RECURSIVE SeqsUpTo(_, _)
SeqsUpTo(S, n) ==
  IF n = 0 THEN {<<>>}
  ELSE SeqsUpTo(S, n - 1) \cup
       {Append(s, x) : s \in {t \in SeqsUpTo(S, n - 1) : Len(t) = n - 1}, x \in S}

MediaChoices == SeqsUpTo(Files, MaxFiles) \cup {Rep(<<"ok">>, MaxMedia + 1)}

Emoji == <<"Eh", "El">>

Texts ==
  { <<>>,                                           \* ""
    <<"a", "b">>,                                   \* "ab"
    <<"a", "b", " ">> \o Emoji,                     \* "ab <emoji>"
    <<" ", "a", "NL", " ", "b">>,                   \* " a\n b"
    Emoji \o <<"V">>,                               \* only decoration
    Rep(<<"a">>, PrefixLen) \o <<"b", "c">>,        \* longer than the prefix
    Rep(<<"a">>, MaxTweetLength - 1) \o Emoji }     \* 281 units, 280 code points

Users == {<<>>, <<"b">>, <<"@", "b">>}

\* username.replace(/^@/, "")
StripAt(username) ==
  IF username # <<>> /\ Head(username) = "@" THEN Tail(username) ELSE username

(***************************************************************************)
(* What the page may show in the feed after a post of tweetText: up to     *)
(* MaxPad cells of other content, then some of: the tweet as the platform  *)
(* renders it (decoration stripped, whitespace reflowed, or all kept and    *)
(* more around it), a promoted copy without a timestamp link, an unrelated *)
(* tweet.                                                                  *)
(***************************************************************************)
Pads == {0, MaxPad - 1, MaxPad}

Fillers ==
  { Cell(FALSE, FALSE, <<>>, <<>>),
    Cell(TRUE, FALSE, <<>>, <<"bob", "status", "5">>),
    Cell(TRUE, TRUE, <<"c", "c">>, <<"bob", "status", "6">>) }

Tails(tweetText) ==
  LET plain == Cell(TRUE, TRUE, StripDecorative(tweetText), <<"me", "status", "7">>)
      kept  == Cell(TRUE, TRUE, <<"S", " ">> \o tweetText \o <<"NL", "c">>,
                    <<"me", "status", "8", "photo", "1">>)
      flowed == Cell(TRUE, TRUE, CollapseSpaces(Trim(StripDecorative(tweetText))),
                     <<"me", "status", "7">>)
      promo == Cell(TRUE, TRUE, tweetText, <<>>)
      other == Cell(TRUE, TRUE, <<"c", "b">>, <<"me", "status", "x">>)
  IN  { <<>>, <<plain>>, <<flowed>>, <<kept>>, <<promo>>, <<promo, plain>>,
        <<kept, plain>>, <<other, kept>>, <<other>> }

Feeds(tweetText) ==
  LET tails == Tails(tweetText)
  IN  { Rep(<<f>>, n) \o t : n \in Pads, f \in Fillers, t \in tails }

(***************************************************************************)
(* State.                                                                  *)
(***************************************************************************)
VARIABLES
  isReady,        \* this.isReady
  browser,        \* this.browser is set
  page,           \* this.page: the id of a page of the browser, or Null
  npages,         \* pages the browser has opened so far (ids 1..npages)
  alive,          \* the pages that still respond
  loc,            \* where this.page is: the location its url() shows
  handlers,       \* postTweet dialog listeners registered on this.page
  once,           \* a one-shot dialog acceptor is pending on this.page
  closing,        \* the last close() call: "none", "begun" (awaiting
                  \* browser.close()) or "done" (returned); "none" again once
                  \* init has launched a browser
  pc,             \* the operation in progress and its position, or "idle"
  req,            \* the request of the operation in progress (or of the last)
  dialogHandled,  \* postTweet's dialogHandled flag
  elapsed,        \* postTweet's elapsed (ms polled so far)
  mediaIdx,       \* postTweet: media files handled so far
  dom,            \* what a profile page shows (follow / unfollow)
  prev,           \* the follow / unfollow that has just succeeded, if any
  scan,           \* getTweetComments: the locals of the scroll loop
  listeners,      \* what the caller has registered on the emitter
  feed,           \* the cells postTweet's verification read
  log,            \* what the operation did, in order
  outcome         \* what the last operation returned or raised

vars == <<isReady, listeners, browser, page, npages, alive, loc, handlers, once, closing,
          pc, req,
          dialogHandled, elapsed, mediaIdx, dom, prev, scan, feed, log, outcome>>

session == <<isReady, listeners, browser, page, npages, alive, loc, handlers, once,
            closing>>
locals == <<dialogHandled, elapsed, mediaIdx, prev, scan>>

MaxPages == 3

NoReq == [op |-> "", text |-> <<>>, media |-> <<>>, username |-> <<>>,
          fields |-> {}, count |-> 0, id |-> ""]

NoOutcome == [op |-> "", kind |-> "none", error |-> "", status |-> "",
              postId |-> NullId, flags |-> {}, saved |-> FALSE, liked |-> 0]

NoDom == [errorHeading |-> FALSE, userName |-> FALSE, unknownAvatar |-> FALSE,
          unfollowBtns |-> <<>>, atMenuBtn |-> FALSE, followBtn |-> FALSE]

\* the locals of getTweetComments: what the reply button reported (n is
\* actualReplyCount), targetCount, collectedMap's values in insertion order,
\* noNewDataRetries, scrollBlocked; sighted is every comment the scans
\* returned, in the order of its first sighting; mainTweet is the article
\* the last scan left out (no article: all fields empty)
NoScan == [available |-> FALSE, actualReplyCount |-> 0, targetCount |-> 0,
           comments |-> <<>>, noNewDataRetries |-> 0, scrollBlocked |-> FALSE,
           sighted |-> <<>>,
           mainTweet |-> [tweetId |-> NullId, handle |-> <<>>, text |-> <<>>]]

NoView == [real |-> FALSE, atMenu |-> FALSE, follow |-> FALSE]
NoPrev == [op |-> "", username |-> <<>>, status |-> "", view |-> NoView]

Threw(op, msg) == [NoOutcome EXCEPT !.op = op, !.kind = "threw", !.error = msg]

\* the state right after the constructor
Constructed ==
  /\ isReady = FALSE
  /\ browser = FALSE
  /\ page = Null
  /\ npages = 0
  /\ alive = {}
  /\ loc = "none"
  /\ handlers = 0
  /\ once = FALSE
  /\ closing = "none"
  /\ pc = "idle"
  /\ req = NoReq
  /\ dialogHandled = FALSE
  /\ elapsed = 0
  /\ mediaIdx = 0
  /\ dom = NoDom
  /\ prev = NoPrev
  /\ scan = NoScan
  /\ feed = <<>>
  /\ log = <<>>
  /\ outcome = NoOutcome

\* what the caller has registered: whether 'error' has a listener, whether
\* a listener may throw
Listeners == [onError : BOOLEAN, throwing : BOOLEAN]
QuietListeners == [onError |-> TRUE, throwing |-> FALSE]

\* a caller whose listeners never throw and who listens to 'error'
Init == Constructed /\ listeners = QuietListeners

\* any caller
InitListeners == Constructed /\ listeners \in Listeners

\* EventEmitter.emit(event): whether the call may throw (a listener throws,
\* or 'error' is emitted and has no listener), and what it throws then
ListenerError == "Error thrown by a listener"
UnhandledError == "Unhandled 'error' event"

Throws(tag) ==
  IF tag = "emit:error" /\ ~listeners.onError THEN {TRUE}
  ELSE IF listeners.throwing THEN BOOLEAN
  ELSE {FALSE}

EmitError(tag) ==
  IF tag = "emit:error" /\ ~listeners.onError THEN UnhandledError ELSE ListenerError

\* a variant that rejects only while the session has no page
NotReadyNoPage == page = Null
\* _ensureReady: the test
NotReady == ~isReady

\* _ensureReady: the error
NotReadyMsg == "Bot not ready. Call .init() and wait for 'ready' event."

(***************************************************************************)
(* _recoverPage, from the current page and browser; alv are the pages that *)
(* respond now, newPage what becomes of browser.newPage() and of the calls *)
(* on the new page: "ok", "unreached" (the new page is open, a call on it  *)
(* raises) or "failed" (no page is opened).  Yields the session it leaves  *)
(* and whether it raised.                                                  *)
(***************************************************************************)
NewPageOutcomes == {"ok", "unreached", "failed"}

RecoverPage(alv, hnd, onc, newPage) ==
  IF page = Null
  THEN [page |-> page, npages |-> npages, alive |-> alv, loc |-> loc,
        handlers |-> hnd, once |-> onc, raised |-> TRUE, path |-> "none"]
  ELSE IF page \in alv
  THEN [page |-> page, npages |-> npages, alive |-> alv, loc |-> "home",
        handlers |-> hnd, once |-> TRUE, raised |-> FALSE, path |-> "same"]
  ELSE IF alv # {}
  THEN [page |-> Min(alv), npages |-> npages, alive |-> alv, loc |-> "home",
        handlers |-> 0, once |-> TRUE, raised |-> FALSE, path |-> "sibling"]
  ELSE IF newPage = "ok" /\ npages < MaxPages
  THEN [page |-> npages + 1, npages |-> npages + 1, alive |-> alv \cup {npages + 1},
        loc |-> "home", handlers |-> 0, once |-> FALSE, raised |-> FALSE,
        path |-> "new"]
  ELSE IF newPage = "unreached" /\ npages < MaxPages
  THEN [page |-> npages + 1, npages |-> npages + 1, alive |-> alv \cup {npages + 1},
        loc |-> "blank", handlers |-> 0, once |-> FALSE, raised |-> TRUE,
        path |-> "unreached"]
  ELSE [page |-> page, npages |-> npages, alive |-> alv, loc |-> loc,
        handlers |-> hnd, once |-> TRUE, raised |-> TRUE, path |-> "failed"]

\* the session after _recoverPage ran
\* the page calls of _recoverPage on the path taken, in the order of the
\* code: the one-shot dialog acceptor and the navigation on the current
\* page; the adopted page with its own acceptor and navigation; the new
\* page and its navigation
RecoveryLog(r) ==
  CASE r.path = "none" -> <<>>
    [] r.path = "same" -> <<"rec:once:current", "rec:goto:current">>
    [] r.path = "sibling" ->
         <<"rec:once:current", "rec:goto:current", "rec:dead", "rec:adopt",
           "rec:once:adopted", "rec:goto:adopted">>
    [] r.path = "new" ->
         <<"rec:once:current", "rec:goto:current", "rec:dead", "rec:newPage",
           "rec:goto:new">>
    [] r.path = "unreached" ->
         <<"rec:once:current", "rec:goto:current", "rec:dead", "rec:newPage">>
    [] OTHER -> <<"rec:once:current", "rec:goto:current", "rec:dead">>

ApplyRecovery(r) ==
  /\ page' = r.page
  /\ npages' = r.npages
  /\ alive' = r.alive
  /\ loc' = r.loc
  /\ handlers' = r.handlers
  /\ once' = r.once
  /\ closing' = closing

(***************************************************************************)
(* init                                                                    *)
(***************************************************************************)
InitOutcomes == {"launchFailed", "newPageFailed", "gotoFailed", "loginUrl",
                 "loginLate", "ready", "readyNoProfile"}

\* the event init emits at the end of its try block, the reads before it
InitEvent(res) ==
  CASE res \in {"loginUrl", "loginLate"} -> "emit:loginRequired"
    [] res \in {"ready", "readyNoProfile"} -> "emit:ready"
    [] OTHER -> "emit:error"

InitReads(res) ==
  CASE res = "gotoFailed" -> <<>>
    [] res = "loginUrl" -> <<"read:url">>
    [] res = "ready" -> <<"read:url", "wait:landmark:ok">>
    [] OTHER -> <<"read:url", "wait:landmark:no", "read:url">>

\* init(): launch, new page, cookies, goto home, the two authentication
\* probes; an error, a listener's included, goes to the catch block, which
\* emits 'error'; init rejects only when that emit throws
InitRun ==
  /\ req' = [NoReq EXCEPT !.op = "init"]
  /\ pc' = "done"
  /\ UNCHANGED <<locals, dom>>
  /\ feed' = <<>>
  /\ IF isReady
     THEN /\ outcome' = [NoOutcome EXCEPT !.op = "init", !.kind = "returned"]
          /\ log' = <<>>
          /\ UNCHANGED session
     ELSE \E res \in InitOutcomes, launched \in Throws("emit:browserLaunched"),
             failed \in Throws("emit:error") :
          \E told \in Throws(InitEvent(res)) :
            LET early == res \in {"launchFailed", "newPageFailed"}
                caught == early \/ launched \/ res = "gotoFailed" \/ told
                rejects == caught /\ failed
                steps ==
                  IF res = "launchFailed" THEN <<"emit:error">>
                  ELSE IF res = "newPageFailed" THEN <<"launch", "emit:error">>
                  ELSE IF launched
                  THEN <<"launch", "newPage", "emit:browserLaunched",
                         "listener:threw", "emit:error">>
                  ELSE <<"launch", "newPage", "emit:browserLaunched">>
                         \o InitReads(res)
                         \o <<InitEvent(res)>>
                         \o (IF res # "gotoFailed" /\ told
                             THEN <<"listener:threw", "emit:error">> ELSE <<>>)
            IN
            /\ UNCHANGED listeners
            /\ outcome' = IF rejects
                          THEN [Threw("init", EmitError("emit:error")) EXCEPT
                                  !.status = res]
                          ELSE [NoOutcome EXCEPT !.op = "init", !.kind = "returned",
                                                 !.status = res]
            /\ log' = steps \o (IF rejects THEN <<"listener:threw">> ELSE <<>>)
            /\ CASE res = "launchFailed" ->
                      UNCHANGED <<closing, isReady, browser, page, npages, alive, loc,
                                  handlers, once>>
                 [] res = "newPageFailed" ->
                      /\ browser' = TRUE
                      /\ npages' = 1
                      /\ alive' = {1}
                      /\ closing' = "none"
                      /\ UNCHANGED <<isReady, page, loc, handlers, once>>
                 [] OTHER ->
                      /\ browser' = TRUE
                      /\ closing' = "none"
                      /\ page' = 2
                      /\ npages' = 2
                      /\ alive' = {1, 2}
                      /\ handlers' = 0
                      /\ once' = FALSE
                      /\ loc' = CASE launched \/ res = "gotoFailed" -> "blank"
                                  [] res \in {"loginUrl", "loginLate"} -> "login"
                                  [] OTHER -> "home"
                      /\ isReady' = (~launched /\ res \in {"ready", "readyNoProfile"})

\* init(), run without another call beside it
InitCall ==
  /\ pc = "idle"
  /\ InitRun

\* init() up to its first await: puppeteer.launch is pending, no field of
\* the session is written yet
InitLaunch ==
  /\ pc = "idle"
  /\ ~isReady
  /\ pc' = "in_launch"
  /\ req' = [NoReq EXCEPT !.op = "init"]
  /\ outcome' = NoOutcome
  /\ log' = <<>>
  /\ feed' = <<>>
  /\ UNCHANGED <<session, locals, dom>>

\* init() from the point where puppeteer.launch settles
InitResume ==
  /\ pc = "in_launch"
  /\ InitRun

\* a variant that closes and notifies whether or not a browser is referenced
CloseCallUnguarded ==
  /\ pc = "idle"
  /\ req' = [NoReq EXCEPT !.op = "close"]
  /\ feed' = <<>>
  /\ pc' = "done"
  /\ browser' = FALSE
  /\ page' = Null
  /\ isReady' = FALSE
  /\ npages' = 0
  /\ alive' = {}
  /\ loc' = "none"
  /\ handlers' = 0
  /\ once' = FALSE
  /\ closing' = "done"
  /\ outcome' = [NoOutcome EXCEPT !.op = "close", !.kind = "returned"]
  /\ log' = <<"emit:closed">>
  /\ UNCHANGED <<locals, dom, listeners>>
\* close()
CloseCall ==
  /\ pc = "idle"
  /\ req' = [NoReq EXCEPT !.op = "close"]
  /\ feed' = <<>>
  /\ pc' = "done"
  /\ UNCHANGED <<locals, dom>>
  /\ IF browser
     THEN /\ browser' = FALSE
          /\ page' = Null
          /\ isReady' = FALSE
          /\ npages' = 0
          /\ alive' = {}
          /\ loc' = "none"
          /\ handlers' = 0
          /\ once' = FALSE
          /\ closing' = "done"
          /\ UNCHANGED listeners
          /\ \E told \in Throws("emit:closed") :
               /\ outcome' = IF told THEN Threw("close", EmitError("emit:closed"))
                             ELSE [NoOutcome EXCEPT !.op = "close",
                                                    !.kind = "returned"]
               /\ log' = <<"emit:closed">> \o
                         (IF told THEN <<"listener:threw">> ELSE <<>>)
     ELSE /\ outcome' = [NoOutcome EXCEPT !.op = "close", !.kind = "returned"]
          /\ log' = <<>>
          /\ closing' = "done"
          /\ UNCHANGED <<isReady, listeners, browser, page, npages, alive, loc,
                         handlers, once>>

\* the environment: a page of the browser stops responding between operations
PageCrash ==
  /\ pc = "idle"
  /\ isReady
  /\ \E p \in alive : alive' = alive \ {p}
  /\ UNCHANGED <<closing, isReady, listeners, browser, page, npages, loc, handlers, once, pc, req,
                 locals, dom, feed, log, outcome>>

(***************************************************************************)
(* postTweet                                                               *)
(***************************************************************************)
\* text.length, in UTF-16 code units
JsLength(str) == Len(str)
CodePoints(str) == Len(SelectSeq(str, LAMBDA c : c # "El"))

\* a variant that measures the text in code points
PostTweetRejectCodePoints(text, media) ==
  CASE JsLength(text) = 0 -> "Tweet text is required"
    [] CodePoints(text) > MaxTweetLength -> "Tweet exceeds 280 characters"
    [] Len(media) > MaxMedia -> "Maximum 4 media files allowed"
    [] OTHER -> ""

\* the checks before the try block: the message raised, or "" when they pass
PostTweetReject(text, media) ==
  CASE JsLength(text) = 0 -> "Tweet text is required"
    [] JsLength(text) > MaxTweetLength -> "Tweet exceeds 280 characters"
    [] Len(media) > MaxMedia -> "Maximum 4 media files allowed"
    [] OTHER -> ""

PreconditionErrors ==
  {"Tweet text is required", "Tweet exceeds 280 characters",
   "Maximum 4 media files allowed"}

\* a variant that waits no longer with media than without
PostTimeoutFlat(media) == PostTimeoutPlain
\* const postTimeout = hasMedia ? 30000 : 8000
PostTimeout(media) == IF Len(media) > 0 THEN PostTimeoutMedia ELSE PostTimeoutPlain

(***************************************************************************)
(* A native dialog reaches the dialog listeners of the page in the order   *)
(* of their registration; each calls dialog.accept() unless its own flag   *)
(* tells it not to, and accept() raises when the dialog was handled        *)
(* before.  cur: the dialogHandler of the call in progress is registered   *)
(* and its dialogHandled is false; onc: a one-shot acceptor registered     *)
(* before it is pending (it swallows the error of its own accept).  A      *)
(* dialogHandler left behind by an earlier call is followed by the         *)
(* one-shot acceptor of that call's recovery, so it can still accept only  *)
(* while onc holds.                                                        *)
(***************************************************************************)
Dispatch(cur, onc) ==
  IF cur /\ onc THEN <<"dialog:accepted", "dialog:raised">>
  ELSE IF cur \/ onc THEN <<"dialog:accepted">>
  ELSE <<"dialog:pending">>

\* the dialog of the navigation away from the composition surface, during
\* _recoverPage: its own one-shot acceptor is registered last
LeaveDialog(cur, onc) ==
  IF cur /\ onc THEN <<"dialog:accepted", "dialog:raised">>
  ELSE <<"dialog:accepted">>

(***************************************************************************)
(* The failure path of postTweet: the throw (after page.off when the       *)
(* throw site calls it: offs = 1), the catch block (dialogHandler is not   *)
(* in scope there, so its page.off is never reached), _recoverPage with    *)
(* its own failure swallowed, the tweetFailed notification, the rethrow.   *)
(* hnd, alv, onc and sofar are the listeners, the responding pages, the    *)
(* pending one-shot acceptor and the log at the throw.                     *)
(***************************************************************************)
PostTweetFail(msg, off, hnd, alv, onc, sofar) ==
  \E newPage \in NewPageOutcomes, told \in Throws("emit:tweetFailed"),
     leave \in BOOLEAN :
    LET r == RecoverPage(alv, IF off THEN hnd - 1 ELSE hnd, onc, newPage)
    IN  /\ leave => r.path = "same"
        /\ closing = "begun" => newPage = "failed"
        /\ ApplyRecovery([r EXCEPT !.once = r.once /\ ~leave])
        /\ log' = sofar \o (IF off THEN <<"off:dialog">> ELSE <<>>)
                        \o <<"recover">> \o RecoveryLog(r)
                        \o (IF leave
                            THEN LeaveDialog(~off /\ ~dialogHandled, once)
                            ELSE <<>>)
                        \o (IF r.raised THEN <<"recover:raised">> ELSE <<>>)
                        \o <<"emit:tweetFailed">>
                        \o (IF told THEN <<"listener:threw">> ELSE <<>>)
                        \o <<"throw">>
        /\ outcome' = Threw("postTweet",
                            IF told THEN EmitError("emit:tweetFailed") ELSE msg)
        /\ pc' = "done"
        /\ dialogHandled' = FALSE
        /\ elapsed' = 0
        /\ mediaIdx' = 0
        /\ UNCHANGED <<closing, isReady, listeners, browser, prev, scan>>

\* postTweet(text, {media}): the checks, the dialog listener, the navigation
PostTweetCall ==
  /\ pc = "idle"
  /\ handlers <= MaxHandlers
  /\ \E text \in Texts, media \in MediaChoices :
       /\ req' = [NoReq EXCEPT !.op = "postTweet", !.text = text, !.media = media]
       /\ feed' = <<>>
       /\ IF NotReady
          THEN /\ outcome' = Threw("postTweet", NotReadyMsg)
               /\ log' = <<>>
               /\ pc' = "done"
               /\ UNCHANGED <<session, locals, dom>>
          ELSE IF PostTweetReject(text, media) # ""
          THEN /\ outcome' = Threw("postTweet", PostTweetReject(text, media))
               /\ log' = <<>>
               /\ pc' = "done"
               /\ UNCHANGED <<session, locals, dom>>
          ELSE /\ dom' = NoDom
               /\ \/ \E dlg \in BOOLEAN :
                       /\ page \in alive
                       /\ pc' = "pt_textarea"
                       /\ handlers' = handlers + 1
                       /\ once' = (once /\ ~dlg)
                       /\ dialogHandled' = dlg
                       /\ loc' = "compose"
                       /\ log' = <<"on:dialog", "goto:compose">> \o
                                 (IF dlg THEN Dispatch(TRUE, once) ELSE <<>>)
                       /\ outcome' = NoOutcome
                       /\ UNCHANGED <<closing, isReady, listeners, browser, page, npages, alive,
                                      elapsed, mediaIdx, prev, scan>>
                  \/ PostTweetFail("Navigation failed", FALSE, handlers + 1, alive,
                                   once, <<"on:dialog", "goto:compose">>)

\* the wait for the composition surface, then click and type
PostTweetTextarea ==
  /\ pc = "pt_textarea"
  /\ UNCHANGED <<req, dom, feed>>
  /\ \E primary \in BOOLEAN, fallback \in BOOLEAN :
       IF primary
       THEN /\ pc' = IF Len(req.media) > 0 THEN "pt_media" ELSE "pt_submit"
            /\ log' = log \o <<"wait:textarea:ok", "click:textarea", "type:textarea">>
            /\ UNCHANGED <<session, locals, outcome>>
       ELSE IF fallback
       THEN PostTweetFail("No element found for selector", FALSE, handlers, alive,
                          once, log \o <<"wait:textarea:no", "wait:textbox:ok",
                                         "noclick:textarea">>)
       ELSE PostTweetFail("Tweet textarea not found", TRUE, handlers, alive, once,
                          log \o <<"wait:textarea:no", "wait:textbox:no">>)

\* one turn of the media loop (the file input is looked up before the first)
PostTweetMedia ==
  /\ pc = "pt_media"
  /\ UNCHANGED <<req, dom, feed>>
  /\ \E fileInput \in BOOLEAN, dlg \in BOOLEAN :
       LET sofar == IF mediaIdx = 0 THEN log \o <<"query:fileInput">> ELSE log
           shown == IF dlg THEN Dispatch(~dialogHandled, once) ELSE <<>>
       IN
       IF mediaIdx = 0 /\ ~fileInput
       THEN PostTweetFail("File input not found", TRUE, handlers, alive, once, sofar)
       ELSE IF req.media[mediaIdx + 1] = "missing"
       THEN PostTweetFail("File not found", TRUE, handlers, alive, once, sofar)
       ELSE IF dialogHandled \/ dlg
       THEN PostTweetFail("Media upload failed - file may be unsupported or too large",
                          TRUE, handlers, alive, once /\ ~dlg,
                          sofar \o <<"upload">> \o shown)
       ELSE /\ mediaIdx' = mediaIdx + 1
            /\ pc' = IF mediaIdx + 1 = Len(req.media) THEN "pt_submit" ELSE "pt_media"
            /\ log' = sofar \o <<"upload">>
            /\ UNCHANGED <<session, dialogHandled, elapsed, prev, scan, outcome>>

\* the click on the post button
PostTweetSubmit ==
  /\ pc = "pt_submit"
  /\ UNCHANGED <<req, dom, feed>>
  /\ \E clicked \in BOOLEAN :
       IF clicked
       THEN /\ pc' = "pt_poll"
            /\ elapsed' = 0
            /\ mediaIdx' = 0
            /\ log' = log \o <<"click:tweetButton">>
            /\ UNCHANGED <<session, dialogHandled, prev, scan, outcome>>
       ELSE PostTweetFail("Post button not found", FALSE, handlers, alive, once, log)

\* one turn of the poll for the composition surface to close
PostTweetPoll ==
  /\ pc = "pt_poll"
  /\ elapsed < PostTimeout(req.media)
  /\ UNCHANGED <<req, dom, feed, session, dialogHandled, mediaIdx, prev, scan, outcome,
                 log>>
  /\ \E stillOnCompose \in BOOLEAN :
       IF ~stillOnCompose
       THEN /\ pc' = "pt_verify"
            /\ elapsed' = 0
       ELSE /\ elapsed' = elapsed + PollInterval
            /\ pc' = IF elapsed + PollInterval < PostTimeout(req.media)
                     THEN "pt_poll" ELSE "pt_stuck"

Toasts == {"", "Whoops! You already said that."}

\* still on compose after the poll: the toast, _dismissCompose, the throw
PostTweetStuck ==
  /\ pc = "pt_stuck"
  /\ UNCHANGED <<req, dom, feed>>
  /\ \E toast \in Toasts, closeBtn \in BOOLEAN :
       PostTweetFail(IF toast # "" THEN toast ELSE "Tweet could not be posted",
                     FALSE, handlers, alive, TRUE,
                     log \o <<"read:toast">> \o
                       (IF toast = "" THEN <<"toast:none">> ELSE <<>>) \o
                       <<"once:dialog">> \o
                       (IF closeBtn THEN <<"click:close">> ELSE <<>>))

\* the search of the feed for the tweet
PostTweetVerify ==
  /\ pc = "pt_verify"
  /\ UNCHANGED <<req, dom>>
  /\ \E cells \in Feeds(req.text) :
       LET verification == VerifyFeed(req.text, cells)
       IN
       /\ feed' = cells
       /\ IF verification.found
          THEN \E told \in Throws("emit:tweetPosted") :
               IF told
               THEN PostTweetFail(EmitError("emit:tweetPosted"), FALSE,
                                  handlers - 1, alive, once,
                                  log \o <<"verify:ok", "off:dialog",
                                           "emit:tweetPosted", "listener:threw">>)
               ELSE
               /\ handlers' = handlers - 1
               /\ loc' = "home"
               /\ log' = log \o <<"verify:ok", "off:dialog", "emit:tweetPosted",
                                  "return">>
               /\ outcome' = [NoOutcome EXCEPT
                                !.op = "postTweet", !.kind = "returned",
                                !.status = "success",
                                !.postId = verification.postId]
               /\ pc' = "done"
               /\ dialogHandled' = FALSE
               /\ UNCHANGED <<closing, isReady, listeners, browser, page, npages, alive, once,
                              elapsed, mediaIdx, prev, scan>>
          ELSE PostTweetFail("Tweet not found in feed after posting", TRUE,
                             handlers, alive, once, log \o <<"verify:no">>)

PostTweetStages == {"pt_textarea", "pt_media", "pt_submit", "pt_poll", "pt_stuck",
                    "pt_verify"}

\* a call on the page raises in the middle of postTweet (the page died, or not)
PostTweetPageError ==
  /\ pc \in PostTweetStages
  /\ UNCHANGED <<req, dom, feed>>
  /\ \E dies \in BOOLEAN :
       PostTweetFail("Page call failed", FALSE, handlers,
                     IF dies THEN alive \ {page} ELSE alive, once, log)

(***************************************************************************)
(* followUser / unfollowUser                                               *)
(***************************************************************************)
\* style.backgroundColor of an element matching [data-testid$="-unfollow"]
Transparent == {"rgba(0, 0, 0, 0)", "transparent"}

\* the [data-testid$="-unfollow"] elements a profile page may hold, in order
UnfollowBtnChoices ==
  { <<>>, <<"rgba(0, 0, 0, 0)">>, <<"transparent">>, <<"purple">>,
    <<"purple", "rgba(0, 0, 0, 0)">> }

\* the controls of a profile page that the follow / unfollow code reads
Controls ==
  [unfollowBtns : UnfollowBtnChoices, atMenuBtn : BOOLEAN, followBtn : BOOLEAN]

ProfileDoms ==
  [errorHeading : BOOLEAN, userName : BOOLEAN, unknownAvatar : BOOLEAN,
   unfollowBtns : UnfollowBtnChoices, atMenuBtn : BOOLEAN, followBtn : BOOLEAN]

WithControls(d, c) ==
  [d EXCEPT !.unfollowBtns = c.unfollowBtns, !.atMenuBtn = c.atMenuBtn,
            !.followBtn = c.followBtn]

\* the profileExists probe
\* variant: the probe without the placeholder-avatar case
ProfileExistsThreeWay(d) ==
  IF d.errorHeading THEN FALSE
  ELSE IF d.userName THEN TRUE
  ELSE TRUE

ProfileExists(d) ==
  IF d.errorHeading THEN FALSE
  ELSE IF d.userName THEN TRUE
  ELSE IF d.unknownAvatar THEN FALSE
  ELSE TRUE

\* querySelector('[data-testid$="-unfollow"]') with a transparent background
RealUnfollowBtn(d) ==
  /\ d.unfollowBtns # <<>>
  /\ Head(d.unfollowBtns) \in Transparent

\* the follow controls of a page as the probes tell them apart
View(d) == [real |-> RealUnfollowBtn(d), atMenu |-> d.atMenuBtn, follow |-> d.followBtn]

\* a variant that takes a page without signal for not followed
FollowStateDefaults(d) ==
  IF RealUnfollowBtn(d) THEN "following"
  ELSE IF d.atMenuBtn THEN "following"
  ELSE "not_following"

\* the follow-state probe: "following" / "not_following" / "unknown"
FollowState(d) ==
  IF RealUnfollowBtn(d) THEN "following"
  ELSE IF d.atMenuBtn THEN "following"
  ELSE IF d.followBtn THEN "not_following"
  ELSE "unknown"

\* followUser's verification after the click
FollowConfirmed(d) == RealUnfollowBtn(d) \/ d.atMenuBtn

\* unfollowUser's verification after the confirmation
UnfollowVerified(d) == d.followBtn

\* the catch block of followUser / unfollowUser: the notification, the rethrow
FollowFail(op, msg, alv, sofar) ==
  /\ outcome' = Threw(op, msg)
  /\ log' = sofar \o <<IF op = "followUser" THEN "emit:followFailed"
                       ELSE "emit:unfollowFailed", "throw">>
  /\ alive' = alv
  /\ pc' = "done"
  /\ UNCHANGED <<closing, isReady, listeners, browser, page, npages, handlers, once, locals, feed>>

\* followUser(username) / unfollowUser(username): the checks and the navigation
FollowCall(op) ==
  /\ pc = "idle"
  /\ \E username \in Users :
       /\ req' = [NoReq EXCEPT !.op = op, !.username = StripAt(username)]
       /\ IF NotReady
          THEN /\ outcome' = Threw(op, NotReadyMsg)
               /\ log' = <<>>
               /\ pc' = "done"
               /\ UNCHANGED <<session, locals, dom, feed>>
          ELSE IF username = <<>>
          THEN /\ outcome' = Threw(op, "Username is required")
               /\ log' = <<>>
               /\ pc' = "done"
               /\ UNCHANGED <<session, locals, dom, feed>>
          ELSE \/ /\ page \in alive
                  /\ \E d \in ProfileDoms : dom' = d
                  /\ loc' = "profile"
                  /\ pc' = IF op = "followUser" THEN "fo_probe" ELSE "un_probe"
                  /\ log' = <<"goto:profile">>
                  /\ outcome' = NoOutcome
                  /\ UNCHANGED <<closing, isReady, listeners, browser, page, npages, alive, handlers,
                                 once, locals, feed>>
               \/ /\ FollowFail(op, "Navigation failed", alive, <<"goto:profile">>)
                  /\ UNCHANGED <<loc, dom>>

FollowUserCall == FollowCall("followUser")
UnfollowUserCall == FollowCall("unfollowUser")

\* followUser: the two probes, then the click on the follow control
FollowProbe ==
  /\ pc = "fo_probe"
  /\ UNCHANGED <<req, loc>>
  /\ IF ~ProfileExists(dom)
     THEN /\ FollowFail("followUser", "User not found or account is suspended",
                        alive, log \o <<"read:profile">>)
          /\ UNCHANGED dom
     ELSE IF FollowState(dom) = "following"
     THEN /\ outcome' = [NoOutcome EXCEPT !.op = "followUser", !.kind = "returned",
                                          !.status = "already_following"]
          /\ log' = log \o <<"read:profile", "read:followState", "return">>
          /\ pc' = "done"
          /\ UNCHANGED <<session, locals, dom, feed>>
     ELSE IF FollowState(dom) = "unknown"
     THEN /\ FollowFail("followUser", "Could not detect follow button", alive,
                        log \o <<"read:profile", "read:followState">>)
          /\ UNCHANGED dom
     ELSE /\ \E c \in Controls : dom' = WithControls(dom, c)
          /\ log' = log \o <<"read:profile", "read:followState", "click:follow">>
          /\ pc' = "fo_verify"
          /\ UNCHANGED <<session, locals, feed, outcome>>

\* followUser: the probe after the click
FollowVerify ==
  /\ pc = "fo_verify"
  /\ UNCHANGED <<req, loc, dom>>
  /\ IF FollowConfirmed(dom)
     THEN /\ outcome' = [NoOutcome EXCEPT !.op = "followUser", !.kind = "returned",
                                          !.status = "followed"]
          /\ log' = log \o <<"verify:ok", "emit:userFollowed", "return">>
          /\ pc' = "done"
          /\ UNCHANGED <<session, locals, feed>>
     ELSE FollowFail("followUser", "Follow action did not complete", alive,
                     log \o <<"verify:no">>)

\* what the page shows after the click on the unfollow control
Menus == {"none", "match", "single", "nomatch"}

\* unfollowUser: the two probes, then the click on the unfollow control
UnfollowProbe ==
  /\ pc = "un_probe"
  /\ UNCHANGED <<req, loc>>
  /\ IF ~ProfileExists(dom)
     THEN /\ FollowFail("unfollowUser", "User not found or account is suspended",
                        alive, log \o <<"read:profile">>)
          /\ UNCHANGED dom
     ELSE IF FollowState(dom) = "not_following"
     THEN /\ outcome' = [NoOutcome EXCEPT !.op = "unfollowUser", !.kind = "returned",
                                          !.status = "not_following"]
          /\ log' = log \o <<"read:profile", "read:followState", "return">>
          /\ pc' = "done"
          /\ UNCHANGED <<session, locals, dom, feed>>
     ELSE IF FollowState(dom) = "unknown"
     THEN /\ FollowFail("unfollowUser", "Could not detect follow/unfollow button",
                        alive, log \o <<"read:profile", "read:followState">>)
          /\ UNCHANGED dom
     ELSE /\ log' = log \o <<"read:profile", "read:followState",
                             IF RealUnfollowBtn(dom) THEN "click:unfollow"
                             ELSE "click:atMenu">>
          /\ pc' = "un_confirm"
          /\ UNCHANGED <<session, locals, dom, feed, outcome>>

\* unfollowUser: the confirmation (the sheet, else the menu), then what shows
UnfollowConfirm ==
  /\ pc = "un_confirm"
  /\ UNCHANGED <<req, loc>>
  /\ \E confirmBtn \in BOOLEAN, menu \in Menus, lateConfirm \in BOOLEAN :
       IF confirmBtn
       THEN /\ ~lateConfirm /\ menu = "none"
            /\ \E c \in Controls : dom' = WithControls(dom, c)
            /\ log' = log \o <<"click:confirm">>
            /\ pc' = "un_verify"
            /\ UNCHANGED <<session, locals, feed, outcome>>
       ELSE IF menu \in {"match", "single"}
       THEN /\ \E c \in Controls : dom' = WithControls(dom, c)
            /\ log' = log \o <<"query:confirm:none", "query:menu:" \o menu>> \o
                        (IF menu = "match" THEN <<"click:menuitem">>
                                           ELSE <<"click:menuitem:only">>) \o
                        (IF lateConfirm THEN <<"click:confirm">> ELSE <<>>)
            /\ pc' = "un_verify"
            /\ UNCHANGED <<session, locals, feed, outcome>>
       ELSE /\ ~lateConfirm
            /\ FollowFail("unfollowUser", "Unfollow confirmation not found", alive,
                          log \o <<"query:confirm:none", "query:menu:" \o menu>>)
            /\ UNCHANGED dom

\* unfollowUser: the check after the confirmation
UnfollowVerify ==
  /\ pc = "un_verify"
  /\ UNCHANGED <<req, loc, dom>>
  /\ IF UnfollowVerified(dom)
     THEN /\ outcome' = [NoOutcome EXCEPT !.op = "unfollowUser", !.kind = "returned",
                                          !.status = "unfollowed"]
          /\ log' = log \o <<"verify:ok", "emit:userUnfollowed", "return">>
          /\ pc' = "done"
          /\ UNCHANGED <<session, locals, feed>>
     ELSE FollowFail("unfollowUser", "Unfollow action did not complete", alive,
                     log \o <<"verify:no">>)

FollowStages == {"fo_probe", "fo_verify", "un_probe", "un_confirm", "un_verify"}

\* a call on the page raises in the middle of followUser / unfollowUser
FollowPageError ==
  /\ pc \in FollowStages
  /\ UNCHANGED <<req, loc, dom>>
  /\ \E dies \in BOOLEAN :
       FollowFail(req.op, "Page call failed",
                  IF dies THEN alive \ {page} ELSE alive, log)

(***************************************************************************)
(* setupProfile                                                            *)
(***************************************************************************)
FileFields == {"header", "avatar"}
TextFields == {"displayName", "bio", "location", "website"}
Fields == FileFields \cup TextFields

\* the position of a file field among the page's fileInput elements
FileInputIndex(f) == IF f = "header" THEN 1 ELSE 2

\* the requested fields whose control the code finds: a file field whose
\* input exists (fileInputs.length >= index), a text field whose element
\* _fillProfileField finds
FieldsFound(requested, nFileInputs, present) ==
  {f \in requested \cap FileFields : nFileInputs >= FileInputIndex(f)}
    \cup (requested \cap TextFields \cap present)

\* a variant that reports every requested field
FieldFlagsRequested(requested, found) == requested
\* the fields whose flag setupProfile sets: each right after the write to
\* the control that was found
FieldFlags(requested, found) == found

\* the page calls of the field edits, in the order of the code
FieldOrder == <<"header", "avatar", "displayName", "bio", "location", "website">>

FieldTag(f) ==
  CASE f = "header" -> "upload:header"
    [] f = "avatar" -> "upload:avatar"
    [] f = "displayName" -> "type:displayName"
    [] f = "bio" -> "type:bio"
    [] f = "location" -> "type:location"
    [] OTHER -> "type:website"

FieldLog(found) ==
  LET applied == SelectSeq(FieldOrder, LAMBDA f : f \in found)
  IN  [i \in 1..Len(applied) |-> FieldTag(applied[i])]

\* a variant that saves only when some field was written
SaveLogIfEdited(found, saveClicked) ==
  IF found = {} THEN <<>>
  ELSE IF saveClicked THEN <<"click:save">> ELSE <<"noclick:save">>

\* the save step: _clickTestId on the save button, which clicks it when the
\* page still holds it
SaveLog(found, saveClicked) ==
  IF saveClicked THEN <<"click:save">> ELSE <<"noclick:save">>

\* the catch block of setupProfile: the notification, the rethrow
SetupFail(msg, alv, sofar) ==
  /\ outcome' = Threw("setupProfile", msg)
  /\ log' = sofar \o <<"emit:profileSetupFailed", "throw">>
  /\ alive' = alv
  /\ pc' = "done"
  /\ UNCHANGED <<closing, isReady, listeners, browser, page, npages, handlers, once, locals, dom, feed>>

\* setupProfile(options): the checks, the navigation, the wait for the page
SetupProfileCall ==
  /\ pc = "idle"
  /\ \E requested \in SUBSET Fields, missing \in SUBSET FileFields :
       /\ missing \subseteq requested
       /\ req' = [NoReq EXCEPT !.op = "setupProfile", !.fields = requested]
       /\ IF NotReady
          THEN /\ outcome' = Threw("setupProfile", NotReadyMsg)
               /\ log' = <<>>
               /\ pc' = "done"
               /\ UNCHANGED <<session, locals, dom, feed>>
          ELSE IF missing # {}
          THEN /\ outcome' = Threw("setupProfile", "file not found")
               /\ log' = <<>>
               /\ pc' = "done"
               /\ UNCHANGED <<session, locals, dom, feed>>
          ELSE \/ /\ page \in alive
                  /\ \E pageReady \in BOOLEAN :
                       IF pageReady
                       THEN /\ loc' = "settings"
                            /\ pc' = "sp_fields"
                            /\ log' = <<"goto:settings", "wait:save">>
                            /\ outcome' = NoOutcome
                            /\ UNCHANGED <<closing, isReady, listeners, browser, page, npages, alive,
                                           handlers, once, locals, dom, feed>>
                       ELSE /\ loc' = "settings"
                            /\ SetupFail("Profile settings page did not load", alive,
                                         <<"goto:settings", "wait:save">>)
               \/ /\ SetupFail("Navigation failed", alive, <<"goto:settings">>)
                  /\ UNCHANGED loc

\* the field edits, then the click on save; the result
SetupProfileFields ==
  /\ pc = "sp_fields"
  /\ UNCHANGED <<req, loc>>
  /\ \E nFileInputs \in 0..2, present \in SUBSET (req.fields \cap TextFields),
        saveClicked \in BOOLEAN :
       LET found == FieldsFound(req.fields, nFileInputs, present)
           flags == FieldFlags(req.fields, found)
       IN  /\ outcome' = [NoOutcome EXCEPT !.op = "setupProfile",
                            !.kind = "returned", !.flags = flags, !.saved = TRUE]
           /\ log' = log \o FieldLog(found)
                        \o SaveLog(found, saveClicked)
                        \o <<"emit:profileSetup", "return">>
           /\ pc' = "done"
           /\ UNCHANGED <<session, locals, dom, feed>>

\* a call on the page raises in the middle of setupProfile, after some of
\* the field edits
SetupProfilePageError ==
  /\ pc = "sp_fields"
  /\ UNCHANGED <<req, loc>>
  /\ \E nFileInputs \in 0..2, present \in SUBSET (req.fields \cap TextFields),
        dies \in BOOLEAN :
       LET edits == FieldLog(FieldsFound(req.fields, nFileInputs, present))
       IN  \E k \in 0..Len(edits) :
             SetupFail("Page call failed", IF dies THEN alive \ {page} ELSE alive,
                       log \o SubSeq(edits, 1, k))

(***************************************************************************)
(* searchAndLike, getTweetStats                                            *)
(***************************************************************************)
Queries == {"", "nodejs"}

\* Math.min(count, likeButtons.length)
LikesToDo(count, nButtons) == IF count < nButtons THEN count ELSE nButtons

\* searchAndLike(query, count): no try block around the navigation; a click
\* that raises is skipped, a click that does not is counted
SearchAndLikeCall ==
  /\ pc = "idle"
  /\ pc' = "done"
  /\ UNCHANGED <<locals, dom, feed>>
  /\ \E query \in Queries, count \in 0..MaxCount :
       /\ req' = [NoReq EXCEPT !.op = "searchAndLike", !.count = count]
       /\ IF NotReady
          THEN /\ outcome' = Threw("searchAndLike", NotReadyMsg)
               /\ log' = <<>>
               /\ UNCHANGED session
          ELSE IF query = ""
          THEN /\ outcome' = Threw("searchAndLike", "Search query is required")
               /\ log' = <<>>
               /\ UNCHANGED session
          ELSE \/ /\ page \in alive
                  /\ loc' = "search"
                  /\ \E nButtons \in 0..MaxLikeButtons :
                       \E clickOk \in SUBSET (1..LikesToDo(count, nButtons)) :
                         /\ outcome' = [NoOutcome EXCEPT !.op = "searchAndLike",
                                          !.kind = "returned",
                                          !.liked = Cardinality(clickOk)]
                         /\ log' = <<"goto:search", "query:like">> \o
                                   [i \in 1..LikesToDo(count, nButtons) |->
                                      IF i \in clickOk THEN "click:like"
                                      ELSE "noclick:like"]
                                   \o <<"return">>
                  /\ UNCHANGED <<closing, isReady, listeners, browser, page, npages, alive, handlers, once>>
               \/ /\ outcome' = Threw("searchAndLike", "Navigation failed")
                  /\ log' = <<"goto:search", "throw">>
                  /\ UNCHANGED session

TweetIds == {"", "17"}

\* a tweet id that the ids above are a prefix of
LongerIds == {"175"}

\* the characters of a tweet id
IdDigits(id) ==
  CASE id = "17" -> <<"1", "7">>
    [] id = "175" -> <<"1", "7", "5">>
    [] OTHER -> <<>>

\* the end of _tweetUrl(tweetId): the text /status/ and the id
StatusPath(id) == <<"/status/">> \o IdDigits(id)

\* the location of the status page of a tweet
StatusLoc(id) == "status/" \o id

\* the end of page.url() at a location
UrlOf(l) ==
  IF \E id \in TweetIds \cup LongerIds : id # "" /\ l = StatusLoc(id)
  THEN StatusPath(CHOOSE id \in TweetIds \cup LongerIds : id # "" /\ l = StatusLoc(id))
  ELSE <<"/", l>>

\* the test of getTweetComments that skips the navigation
OnThread(l, tweetId) == Includes(UrlOf(l), StatusPath(tweetId))

\* getTweetStats(tweetId): no try block; one navigation, one read of the page
GetTweetStatsCall ==
  /\ pc = "idle"
  /\ pc' = "done"
  /\ UNCHANGED <<locals, dom, feed>>
  /\ \E tweetId \in TweetIds \cup LongerIds :
       /\ req' = [NoReq EXCEPT !.op = "getTweetStats", !.id = tweetId]
       /\ IF NotReady
          THEN /\ outcome' = Threw("getTweetStats", NotReadyMsg)
               /\ log' = <<>>
               /\ UNCHANGED session
          ELSE IF tweetId = ""
          THEN /\ outcome' = Threw("getTweetStats", "Tweet ID is required")
               /\ log' = <<>>
               /\ UNCHANGED session
          ELSE \/ /\ page \in alive
                  /\ loc' = StatusLoc(tweetId)
                  /\ \E readOk \in BOOLEAN :
                       IF readOk
                       THEN /\ outcome' = [NoOutcome EXCEPT !.op = "getTweetStats",
                                             !.kind = "returned", !.status = "stats"]
                            /\ log' = <<"goto:status", "read:stats", "return">>
                       ELSE /\ outcome' = Threw("getTweetStats", "Page call failed")
                            /\ log' = <<"goto:status", "throw">>
                  /\ UNCHANGED <<closing, isReady, listeners, browser, page, npages, alive, handlers, once>>
               \/ /\ outcome' = Threw("getTweetStats", "Navigation failed")
                  /\ log' = <<"goto:status", "throw">>
                  /\ UNCHANGED session

(***************************************************************************)
(* getTweetComments                                                        *)
(***************************************************************************)
\* a comment as scrapeVisibleComments returns it (the fields the loop reads)
Comment(tweetId, handle, text) ==
  [tweetId |-> tweetId, handle |-> handle, text |-> text]

\* the comments a thread may show: two of the same author and text, one
\* with a permalink and one without, and a third without permalink whose
\* handle and text differ from the second's and join to the same key
Comments ==
  { Comment("5", <<"@", "a">>, <<"b", "_", "c">>),
    Comment(NullId, <<"@", "a">>, <<"b", "_", "c">>),
    Comment(NullId, <<"@", "a", "_", "b">>, <<"c">>) }

\* the replies the page may hold at one scan
Visibles == SeqsUpTo(Comments, MaxVisible)

\* the article of the tweet whose id was requested, and of the tweet it
\* replies to when it is a reply itself
Subject(id) == Comment(id, <<"@", "m">>, <<"t">>)
Parent == Comment("1", <<"@", "p">>, <<"q">>)

\* the tweet articles the page may hold at one scan, in document order:
\* the replies, below the subject, below its parent; the virtualized list
\* drops what has scrolled out
Renderings(id) ==
  { above \o v : above \in {<<>>, <<Subject(id)>>, <<Parent, Subject(id)>>},
                 v \in Visibles }

\* scrapeVisibleComments: every tweet article but the first (foundMainTweet)
scrapeVisibleComments(articles) ==
  IF articles = <<>> THEN <<>> ELSE Tail(articles)

\* the article at which a scan sets foundMainTweet
MainTweet(articles) ==
  IF articles = <<>> THEN Comment(NullId, <<>>, <<>>) ELSE Head(articles)

\* const key = c.tweetId || `${c.handle}_${c.text}`
CommentKey(c) ==
  IF c.tweetId # NullId THEN <<c.tweetId>> ELSE c.handle \o <<"_">> \o c.text

\* collectedMap.has(key)
HasKey(collected, key) == \E i \in 1..Len(collected) : CommentKey(collected[i]) = key

\* Math.min(count, actualReplyCount || count)
TargetCount(count, actualReplyCount) ==
  LET cap == IF actualReplyCount # 0 THEN actualReplyCount ELSE count
  IN  IF count < cap THEN count ELSE cap

\* the for loop over visible: a comment with a new key is added, the loop
\* stops once the map holds targetCount comments
RECURSIVE CollectLoop(_, _, _)
CollectLoop(collected, visible, targetCount) ==
  IF visible = <<>> THEN collected
  ELSE LET c == Head(visible)
           added == IF HasKey(collected, CommentKey(c)) THEN collected
                    ELSE Append(collected, c)
       IN  IF Len(added) >= targetCount THEN added
           ELSE CollectLoop(added, Tail(visible), targetCount)

\* a variant that tells apart only the comments of one scan
CollectPerScan(collected, visible, targetCount) ==
  collected \o CollectLoop(<<>>, visible, targetCount - Len(collected))
\* the map after one scan
Collect(collected, visible, targetCount) ==
  CollectLoop(collected, visible, targetCount)

\* the comments sighted so far, each once, in the order of first sighting
RECURSIVE Sight(_, _)
Sight(sighted, visible) ==
  IF visible = <<>> THEN sighted
  ELSE Sight(IF \E i \in 1..Len(sighted) : sighted[i] = Head(visible)
             THEN sighted ELSE Append(sighted, Head(visible)),
             Tail(visible))

\* a variant that never starts the count afresh
RetriesNeverReset(retries, newFound) == IF newFound = 0 THEN retries + 1 ELSE retries
\* a variant that starts the count afresh at every scan
RetriesNeverCount(retries, newFound) == 0
\* noNewDataRetries after the scan of one turn of the loop
RetriesAfterScan(retries, newFound) == IF newFound = 0 THEN retries + 1 ELSE 0

\* the result: Array.from(collectedMap.values()).slice(0, targetCount)
GetTweetCommentsResult(sc) ==
  /\ scan' = [sc EXCEPT !.comments = Slice(sc.comments, sc.targetCount)]
  /\ outcome' = [NoOutcome EXCEPT !.op = "getTweetComments", !.kind = "returned",
                                  !.status = "comments"]
  /\ log' = log \o <<"return">>
  /\ pc' = "done"

\* getTweetComments(tweetId, count): the checks, the navigation (skipped when
\* the page is on the tweet already), the read of the reply total
GetTweetCommentsCall ==
  /\ pc = "idle"
  /\ UNCHANGED <<dialogHandled, elapsed, mediaIdx, prev, dom, feed>>
  /\ \E tweetId \in TweetIds, count \in 0..MaxCount :
       /\ req' = [NoReq EXCEPT !.op = "getTweetComments", !.id = tweetId,
                               !.count = count]
       /\ IF NotReady
          THEN /\ outcome' = Threw("getTweetComments", NotReadyMsg)
               /\ log' = <<>>
               /\ pc' = "done"
               /\ UNCHANGED <<session, scan>>
          ELSE IF tweetId = ""
          THEN /\ outcome' = Threw("getTweetComments", "Tweet ID is required")
               /\ log' = <<>>
               /\ pc' = "done"
               /\ UNCHANGED <<session, scan>>
          ELSE LET nav == IF OnThread(loc, tweetId) THEN <<"read:url">>
                          ELSE <<"read:url", "goto:status">>
               IN
               \/ /\ page \in alive
                  /\ loc' = IF OnThread(loc, tweetId) THEN loc ELSE StatusLoc(tweetId)
                  /\ \E available \in BOOLEAN, n \in 0..MaxReplies :
                       /\ ~available => n = 0
                       /\ scan' = [NoScan EXCEPT
                                     !.available = available,
                                     !.actualReplyCount = n,
                                     !.targetCount = TargetCount(count, n)]
                  /\ log' = nav \o <<"read:replyCount">>
                  /\ pc' = "gc_loop"
                  /\ outcome' = NoOutcome
                  /\ UNCHANGED <<closing, isReady, listeners, browser, page, npages, alive, handlers, once>>
               \/ /\ outcome' = Threw("getTweetComments", "Page call failed")
                  /\ log' = nav \o <<"throw">>
                  /\ pc' = "done"
                  /\ UNCHANGED <<session, scan>>

\* the test of the while loop and one turn of it: the scan, the count of
\* turns without new data, the scroll and the comparison of the heights
GetTweetCommentsLoop ==
  /\ pc = "gc_loop"
  /\ UNCHANGED <<session, dialogHandled, elapsed, mediaIdx, prev, dom, feed, req>>
  /\ IF Len(scan.comments) >= scan.targetCount
     THEN GetTweetCommentsResult(scan)
     ELSE \E articles \in Renderings(req.id), grew \in BOOLEAN :
            LET visible == scrapeVisibleComments(articles)
                collected == Collect(scan.comments, visible, scan.targetCount)
                newFound == Len(collected) - Len(scan.comments)
                scanned == RetriesAfterScan(scan.noNewDataRetries, newFound)
                scrolled == IF grew THEN scanned ELSE scanned + 1
                sc == [scan EXCEPT !.comments = collected,
                                   !.sighted = Sight(scan.sighted, visible),
                                   !.mainTweet = MainTweet(articles)]
            IN  IF Len(collected) >= scan.targetCount
                THEN GetTweetCommentsResult(sc)
                ELSE IF newFound = 0 /\ scanned >= MaxRetries
                THEN GetTweetCommentsResult(
                       [sc EXCEPT !.noNewDataRetries = scanned,
                                  !.scrollBlocked = TRUE])
                ELSE IF ~grew /\ scrolled >= MaxRetries
                THEN GetTweetCommentsResult(
                       [sc EXCEPT !.noNewDataRetries = scrolled,
                                  !.scrollBlocked = TRUE])
                ELSE /\ scan' = [sc EXCEPT !.noNewDataRetries = scrolled]
                     /\ pc' = "gc_loop"
                     /\ UNCHANGED <<log, outcome>>

\* a call on the page raises in the middle of getTweetComments
GetTweetCommentsPageError ==
  /\ pc = "gc_loop"
  /\ UNCHANGED <<closing, isReady, listeners, browser, page, npages, loc, handlers, once, req,
                 locals, dom, feed>>
  /\ \E dies \in BOOLEAN : alive' = IF dies THEN alive \ {page} ELSE alive
  /\ outcome' = Threw("getTweetComments", "Page call failed")
  /\ log' = log \o <<"throw">>
  /\ pc' = "done"

\* the caller takes the outcome; the session is ready for the next call
Return ==
  /\ pc = "done"
  /\ pc' = "idle"
  /\ req' = NoReq
  /\ outcome' = NoOutcome
  /\ log' = <<>>
  /\ feed' = <<>>
  /\ dom' = NoDom
  /\ prev' = IF outcome.kind = "returned" /\ outcome.status \in {"followed", "unfollowed"}
             THEN [op |-> req.op, username |-> req.username,
                   status |-> outcome.status, view |-> View(dom)]
             ELSE NoPrev
  /\ scan' = NoScan
  /\ UNCHANGED <<session, dialogHandled, elapsed, mediaIdx>>

(***************************************************************************)
(* close() called while init or postTweet is suspended at an await.  The   *)
(* call tests this.browser at once; with a browser it awaits               *)
(* browser.close(), during which no page responds, and writes the fields   *)
(* when that settles.                                                      *)
(***************************************************************************)
Suspended == {"in_launch"} \cup PostTweetStages

CloseInFlight ==
  /\ pc \in Suspended
  /\ closing = "none"
  /\ IF browser
     THEN /\ closing' = "begun"
          /\ alive' = {}
     ELSE /\ closing' = "done"
          /\ alive' = alive
  /\ UNCHANGED <<isReady, listeners, browser, page, npages, loc, handlers, once, pc, req,
                 locals, dom, feed, log, outcome>>

CloseFinish ==
  /\ closing = "begun"
  /\ browser' = FALSE
  /\ page' = Null
  /\ isReady' = FALSE
  /\ npages' = 0
  /\ alive' = {}
  /\ loc' = "none"
  /\ handlers' = 0
  /\ once' = FALSE
  /\ closing' = "done"
  /\ UNCHANGED <<listeners, pc, req, locals, dom, feed, log, outcome>>

Lifecycle ==
  \/ Return
  \/ InitCall
  \/ CloseCall
  \/ PageCrash

NextPost ==
  \/ Lifecycle
  \/ PostTweetCall
  \/ PostTweetTextarea
  \/ PostTweetMedia
  \/ PostTweetSubmit
  \/ PostTweetPoll
  \/ PostTweetStuck
  \/ PostTweetVerify
  \/ PostTweetPageError

NextFollow ==
  \/ Lifecycle
  \/ FollowUserCall
  \/ UnfollowUserCall
  \/ FollowProbe
  \/ FollowVerify
  \/ UnfollowProbe
  \/ UnfollowConfirm
  \/ UnfollowVerify
  \/ FollowPageError

NextOther ==
  \/ Lifecycle
  \/ SetupProfileCall
  \/ SetupProfileFields
  \/ SetupProfilePageError
  \/ SearchAndLikeCall
  \/ GetTweetStatsCall

NextComments ==
  \/ Lifecycle
  \/ GetTweetCommentsCall
  \/ GetTweetCommentsLoop
  \/ GetTweetCommentsPageError

\* getTweetComments when every call on the page returns
NextCommentsLive ==
  \/ Lifecycle
  \/ GetTweetCommentsCall
  \/ GetTweetCommentsLoop

Next ==
  \/ NextPost
  \/ NextFollow
  \/ NextOther
  \/ NextComments

\* every operation
Spec == Init /\ [][Next]_vars

\* the entry of every operation: the checks and the first call on the page;
\* an operation that got past them ends at the next call on the page, which
\* raises
NextEntry ==
  \/ Lifecycle
  \/ PostTweetCall
  \/ PostTweetPageError
  \/ FollowUserCall
  \/ UnfollowUserCall
  \/ FollowPageError
  \/ SetupProfileCall
  \/ SetupProfilePageError
  \/ SearchAndLikeCall
  \/ GetTweetStatsCall
  \/ GetTweetCommentsCall
  \/ GetTweetCommentsPageError

SpecEntry == Init /\ [][NextEntry]_vars

\* the session and postTweet
SpecPost == Init /\ [][NextPost]_vars

\* init and postTweet with a close() beside them
NextClose ==
  \/ Return
  \/ closing # "begun" /\ InitCall
  \/ closing # "begun" /\ InitLaunch
  \/ InitResume
  \/ closing # "begun" /\ CloseCall
  \/ CloseInFlight
  \/ CloseFinish
  \/ closing # "begun" /\ PostTweetCall
  \/ closing = "none" /\ PostTweetTextarea
  \/ closing = "none" /\ PostTweetMedia
  \/ closing = "none" /\ PostTweetSubmit
  \/ closing = "none" /\ PostTweetPoll
  \/ closing = "none" /\ PostTweetStuck
  \/ closing = "none" /\ PostTweetVerify
  \/ PostTweetPageError

SpecClose == Init /\ [][NextClose]_vars

\* the same operations, for any caller
SpecListeners == InitListeners /\ [][NextPost]_vars

\* the session and followUser / unfollowUser
SpecFollow == Init /\ [][NextFollow]_vars

\* the session and setupProfile, searchAndLike, getTweetStats
SpecOther == Init /\ [][NextOther]_vars

\* the session and getTweetComments
SpecComments == Init /\ [][NextComments]_vars

\* getTweetComments after getTweetStats on the same page
NextThread ==
  \/ NextComments
  \/ GetTweetStatsCall

SpecThread == Init /\ [][NextThread]_vars

\* getTweetComments when every call on the page returns; the loop, once
\* entered, goes on running (the awaits of its body resolve)
SpecCommentsLive ==
  Init /\ [][NextCommentsLive]_vars /\ WF_vars(GetTweetCommentsLoop)


(***************************************************************************)
(* Properties.  The text normal form and the containment test of the       *)
(* properties are written out here on their own, so that they do not       *)
(* depend on the operators that model the verification code.               *)
(***************************************************************************)
InLog(tag) == \E i \in 1..Len(log) : log[i] = tag

ClickTags ==
  {"click:textarea", "click:tweetButton", "click:close", "click:follow",
   "click:unfollow", "click:atMenu", "click:confirm", "click:menuitem",
   "click:menuitem:only",
   "click:save", "click:like"}

NoClick(l) == \A i \in 1..Len(l) : l[i] \notin ClickTags

Done(op) == pc = "done" /\ req.op = op

RECURSIVE Undecorated(_)
Undecorated(str) ==
  IF str = <<>> THEN <<>>
  ELSE (IF Head(str) \in Decorative THEN <<>> ELSE <<Head(str)>>)
         \o Undecorated(Tail(str))

RECURSIVE Squeezed(_)
Squeezed(str) ==
  IF str = <<>> THEN <<>>
  ELSE IF Head(str) \in WhiteSpace
  THEN IF Len(str) > 1 /\ str[2] \in WhiteSpace
       THEN Squeezed(Tail(str))
       ELSE <<" ">> \o Squeezed(Tail(str))
  ELSE <<Head(str)>> \o Squeezed(Tail(str))

\* decoration removed, whitespace runs squeezed, no blank at either end
Canon(str) ==
  LET s == Squeezed(Undecorated(str))
      a == IF s # <<>> /\ s[1] = " " THEN Tail(s) ELSE s
  IN  IF a # <<>> /\ a[Len(a)] = " " THEN SubSeq(a, 1, Len(a) - 1) ELSE a

Contains(hay, needle) ==
  \E k \in 0..(Len(hay) - Len(needle)) : SubSeq(hay, k + 1, k + Len(needle)) = needle

CanonPrefix(str) ==
  LET c == Canon(str) IN IF Len(c) <= PrefixLen THEN c ELSE SubSeq(c, 1, PrefixLen)

\* the cells among the first ten of the feed that postTweet read
First10 == {i \in 1..Len(feed) : i <= FeedScan}

\* cell i holds an item whose normal form contains the prefix of the request
Rendered(i) ==
  /\ feed[i].article
  /\ feed[i].hasText
  /\ Contains(Canon(feed[i].text), CanonPrefix(req.text))

\* cell i holds an item whose text equals the request's, normal forms compared
RenderedEqual(i) ==
  /\ feed[i].article
  /\ feed[i].hasText
  /\ Canon(feed[i].text) = Canon(req.text)

\* postTweet got as far as its search of the feed
VerificationRan == Done("postTweet") /\ (InLog("verify:ok") \/ InLog("verify:no"))

InvalidPost(r) ==
  \/ Len(r.text) = 0
  \/ Len(r.text) > MaxTweetLength
  \/ Len(r.media) > MaxMedia

\* C3: on a ready session, a postTweet call with empty text, a text longer
\* than 280 units or more than 4 media paths raises one of the three
\* precondition errors at once: nothing is done on the page (empty log, so
\* no navigation and no recovery) and the page, its dialog listeners and the
\* session state are unchanged.
C3_RejectsBeforeInteraction ==
  [][(pc = "idle" /\ pc' # "idle" /\ req'.op = "postTweet" /\ isReady
        /\ InvalidPost(req'))
       => (/\ pc' = "done"
           /\ outcome'.kind = "threw"
           /\ outcome'.error \in PreconditionErrors
           /\ log' = <<>>
           /\ UNCHANGED session)]_vars

C3_Witness ==
  /\ Done("postTweet")
  /\ isReady
  /\ Len(req.text) > MaxTweetLength
  /\ outcome.kind = "threw"
  /\ outcome.error = "Tweet exceeds 280 characters"
  /\ log = <<>>

\* C4: a postTweet call on a ready session with otherwise valid input and a
\* media path that does not exist never does anything on the page: no
\* navigation, no typing, no upload, no recovery (the log stays empty).
C4_MissingFileRejectedUpFront ==
  (/\ req.op = "postTweet"
   /\ \E i \in 1..Len(req.media) : req.media[i] = "missing"
   /\ ~InvalidPost(req)
   /\ outcome.error # NotReadyMsg)
    => log = <<>>

\* C5: a success of postTweet carries the numeric identifier parsed from the
\* permalink of the first of the first ten feed cells whose normal form
\* contains the prefix of the request, and never a missing identifier.
C5_SuccessCarriesIdentifier ==
  (Done("postTweet") /\ outcome.kind = "returned")
    => \E j \in First10 :
         /\ Rendered(j)
         /\ \A k \in 1..(j - 1) : ~Rendered(k)
         /\ outcome.postId = ParseStatusId(feed[j].href)
         /\ outcome.postId # NullId

\* C6: when postTweet has searched the feed (the compose surface closed)
\* and none of the first ten cells holds an item whose normal form contains
\* the first 20 normalized characters of the request, postTweet raises
\* 'Tweet not found in feed after posting' after emitting tweetFailed, and
\* does not report success.
C6_NoMatchNoSuccess ==
  (VerificationRan /\ \A i \in First10 : ~Rendered(i))
    => /\ outcome.kind = "threw"
       /\ outcome.error = "Tweet not found in feed after posting"
       /\ InLog("emit:tweetFailed")
       /\ ~InLog("emit:tweetPosted")

\* the feed holds the tweet, but only beyond the tenth cell
C6_Witness ==
  /\ VerificationRan
  /\ \A i \in First10 : ~Rendered(i)
  /\ \E i \in 1..Len(feed) : i > FeedScan /\ Rendered(i)
  /\ outcome.error = "Tweet not found in feed after posting"
  /\ InLog("emit:tweetFailed")

\* the first of the first ten cells that holds an item containing the prefix
FirstRendered(j) == j \in First10 /\ Rendered(j) /\ \A k \in 1..(j - 1) : ~Rendered(k)

\* C7 (as amended): when one of the first ten cells holds an item whose text
\* equals the request's after removal of decoration, trimming and collapse
\* of whitespace, postTweet reports success, and the identifier it returns is
\* the one parsed from the permalink of the first cell that contains the
\* prefix: that item's own when no earlier cell contains it, and the missing
\* identifier when that first cell has no status permalink.
C7_EqualTextFoundFirstMatchId ==
  VerificationRan =>
    \A i \in First10 :
      RenderedEqual(i) =>
        /\ outcome.kind = "returned"
        /\ \E j \in 1..i : FirstRendered(j)
                            /\ outcome.postId = ParseStatusId(feed[j].href)
        /\ FirstRendered(i) => outcome.postId = ParseStatusId(feed[i].href)

\* an item equal to the request but for decoration and whitespace, behind an
\* earlier cell that contains the prefix: found, with the earlier cell's id
C7_Witness ==
  /\ VerificationRan
  /\ outcome.kind = "returned"
  /\ \E i \in First10 :
       /\ RenderedEqual(i)
       /\ feed[i].text # req.text
       /\ ~FirstRendered(i)
       /\ outcome.postId # ParseStatusId(feed[i].href)

\* C7 (as stated): every item among the first ten cells whose text equals
\* the request's after normalization is reported found, with the identifier
\* of its own permalink.
C7_EqualTextFoundOwnId ==
  VerificationRan =>
    \A i \in First10 :
      RenderedEqual(i) =>
        /\ outcome.kind = "returned"
        /\ outcome.postId = ParseStatusId(feed[i].href)


\* C1: an operation reports a successful effect (postTweet success, followed,
\* unfollowed, setupProfile saved = true, searchAndLike liked > 0) only when
\* it has read the page again after its last click and seen the effect there.
SuccessfulEffect ==
  /\ outcome.kind = "returned"
  /\ \/ outcome.status \in {"success", "followed", "unfollowed"}
     \/ outcome.saved
     \/ outcome.liked > 0

C1_SuccessOnlyAfterEvidence ==
  (pc = "done" /\ SuccessfulEffect)
    => \E i \in 1..Len(log) :
         /\ log[i] = "verify:ok"
         /\ \A j \in (i + 1)..Len(log) : log[j] \notin ClickTags

\* C2: an operation that raises after it has begun to act on the page (its
\* log is not empty) has run the recovery before raising.
C2_RecoveryOnEveryFailure ==
  (pc = "done" /\ outcome.kind = "threw" /\ log # <<>>) => InLog("recover")

\* the probe finds none of its three signals on the page
NoSignal(d) == ~RealUnfollowBtn(d) /\ ~d.atMenuBtn /\ ~d.followBtn

Statuses == {"followed", "already_following", "unfollowed", "not_following"}

\* C8: followUser on a profile read as following returns already_following
\* and unfollowUser on a profile read as not following returns not_following,
\* both without a click; so a follow right after a follow that returned
\* followed, and an unfollow right after an unfollow that returned
\* unfollowed, the profile showing what it showed at the end of the first
\* call, returns already_following / not_following without a click.
C8_IdempotentNoOps ==
  [][/\ (FollowProbe /\ ProfileExists(dom)
           /\ (RealUnfollowBtn(dom) \/ dom.atMenuBtn))
        => (outcome'.status = "already_following" /\ NoClick(log'))
     /\ (UnfollowProbe /\ ProfileExists(dom)
           /\ ~RealUnfollowBtn(dom) /\ ~dom.atMenuBtn /\ dom.followBtn)
        => (outcome'.status = "not_following" /\ NoClick(log'))
     /\ (FollowProbe /\ ProfileExists(dom) /\ prev.op = "followUser"
           /\ prev.status = "followed" /\ prev.username = req.username
           /\ prev.view = View(dom))
        => (outcome'.status = "already_following" /\ NoClick(log'))
     /\ (UnfollowProbe /\ ProfileExists(dom) /\ prev.op = "unfollowUser"
           /\ prev.status = "unfollowed" /\ prev.username = req.username
           /\ prev.view = View(dom))
        => (outcome'.status = "not_following" /\ NoClick(log'))]_vars

\* C9: followUser returns followed only when the page it read after the
\* click shows a real unfollow control or an @-labelled menu button;
\* unfollowUser returns unfollowed only when the page it read after the
\* confirmation shows neither of them and shows a follow control.
C9_SuccessMeansProbeFlipped ==
  /\ (Done("followUser") /\ outcome.status = "followed")
       => (RealUnfollowBtn(dom) \/ dom.atMenuBtn)
  /\ (Done("unfollowUser") /\ outcome.status = "unfollowed")
       => (~RealUnfollowBtn(dom) /\ ~dom.atMenuBtn /\ dom.followBtn)

\* C10: when followUser or unfollowUser reaches its follow-state probe on an
\* existing profile that shows none of the three signals, the call ends by
\* raising, after its failure notification, with no click on the page and
\* none of the four statuses returned.
C10_UnknownIsFatal ==
  [][(pc \in {"fo_probe", "un_probe"} /\ ProfileExists(dom) /\ NoSignal(dom))
       => (/\ pc' = "done"
           /\ outcome'.kind = "threw"
           /\ outcome'.status \notin Statuses
           /\ NoClick(log')
           /\ IF req.op = "followUser"
              THEN \E i \in 1..Len(log') : log'[i] = "emit:followFailed"
              ELSE \E i \in 1..Len(log') : log'[i] = "emit:unfollowFailed")]_vars

C10_Witness ==
  /\ Done("unfollowUser")
  /\ ProfileExists(dom)
  /\ NoSignal(dom)
  /\ outcome.kind = "threw"
  /\ outcome.error = "Could not detect follow/unfollow button"
  /\ InLog("read:followState")
  /\ InLog("emit:unfollowFailed")
  /\ NoClick(log)


\* C11: init sets the readiness flag and emits ready only when the page is
\* not at a login URL and the landmark of an authenticated page (profile
\* link / account switcher) was seen; when the landmark never appears the
\* session is not declared ready.
C11_ReadyNeedsBothSignals ==
  (Done("init") /\ InLog("emit:ready"))
    => (isReady /\ loc # "login" /\ InLog("wait:landmark:ok"))


Smaller(a, b) == IF a < b THEN a ELSE b

\* two comments have the same identity: the tweet id when either has one,
\* else the handle and the text
SameIdentity(c, d) ==
  IF c.tweetId # NullId \/ d.tweetId # NullId
  THEN c.tweetId = d.tweetId
  ELSE c.handle = d.handle /\ c.text = d.text

\* the turn of the first sighting of a comment of this identity
FirstSight(c) ==
  Min({k \in 1..Len(scan.sighted) : SameIdentity(scan.sighted[k], c)})

CommentsReturned == Done("getTweetComments") /\ outcome.kind = "returned"

\* C12: a result of getTweetComments holds at most min(count,
\* actualReplyCount) comments, actualReplyCount being the total the same
\* result reports, 0 included.
C12_AtMostReportedTotal ==
  CommentsReturned
    => Len(scan.comments) <= Smaller(req.count, scan.actualReplyCount)

\* C13: the comments getTweetComments has collected, at every turn and in
\* the result, have pairwise distinct identities, were all sighted, and
\* stand in the order of their first sighting.
C13_DistinctInFirstSightOrder ==
  req.op = "getTweetComments" =>
    /\ \A i, j \in 1..Len(scan.comments) :
         i < j => /\ ~SameIdentity(scan.comments[i], scan.comments[j])
                  /\ FirstSight(scan.comments[i]) < FirstSight(scan.comments[j])
    /\ \A i \in 1..Len(scan.comments) :
         \E k \in 1..Len(scan.sighted) : scan.sighted[k] = scan.comments[i]

\* a result of two comments when more than two had been sighted, after a
\* turn that brought no progress
C13_Witness ==
  /\ CommentsReturned
  /\ Len(scan.comments) = 2
  /\ Len(scan.sighted) > 2
  /\ scan.noNewDataRetries > 0

\* C14: when every call on the page returns, the scroll loop of
\* getTweetComments ends, and ends with a normal result: the target count
\* is reached, or the retry counter has reached 5 and scrollBlocked is true.
C14_ScrollLoopTerminates ==
  (pc = "gc_loop")
    ~> (/\ CommentsReturned
        /\ \/ Len(scan.comments) >= scan.targetCount /\ ~scan.scrollBlocked
           \/ scan.noNewDataRetries >= MaxRetries /\ scan.scrollBlocked)

\* a result after five turns that brought nothing
C14_Witness ==
  /\ CommentsReturned
  /\ scan.scrollBlocked
  /\ scan.noNewDataRetries = MaxRetries
  /\ Len(scan.comments) < scan.targetCount

\* C15: in a result of getTweetComments, with target = min(count,
\* actualReplyCount) when the page reported a reply total and target = count
\* when it did not, scrollBlocked is false exactly when the number of
\* comments equals target, and true only when it is below target.
C15_BlockedIffShort ==
  CommentsReturned =>
    LET target == IF scan.available
                  THEN Smaller(req.count, scan.actualReplyCount)
                  ELSE req.count
    IN  /\ ~scan.scrollBlocked <=> Len(scan.comments) = target
        /\ scan.scrollBlocked => Len(scan.comments) < target


\* C16: when an operation that has begun to act on the page ends by raising,
\* the session is still ready and its page handle refers to a page that
\* responds; when the page was dead as the failing step began, that page is
\* at the home timeline.
C16_FailureLeavesBaseline ==
  [][(pc # "done" /\ pc' = "done" /\ outcome'.kind = "threw" /\ log' # <<>>)
       => (/\ isReady'
           /\ page' \in alive'
           /\ page \notin alive => loc' = "home")]_vars

\* C17: _recoverPage never raises, whatever the state of the page and of
\* the browser.
C17_RecoveryNeverRaises == ~InLog("recover:raised")

\* C18: when the recovery run by a failing operation leaves the session
\* without a responsive page, the operation has emitted 'error'.
C18_UnrecoverableIsNotified ==
  (pc = "done" /\ InLog("recover") /\ page \notin alive) => InLog("emit:error")


SuccessEvents ==
  {"emit:tweetPosted", "emit:userFollowed", "emit:userUnfollowed",
   "emit:profileSetup"}

FailureEvents ==
  {"emit:tweetFailed", "emit:followFailed", "emit:unfollowFailed",
   "emit:profileSetupFailed", "emit:error"}

CheckedOps ==
  {"postTweet", "followUser", "unfollowUser", "setupProfile", "getTweetStats",
   "getTweetComments", "searchAndLike"}

\* C20: every outcome of an operation that has passed the readiness check
\* comes with a notification: a returned value with a success event, a
\* raised error with a failure event.
C20_EveryOutcomeEchoed ==
  (pc = "done" /\ req.op \in CheckedOps /\ outcome.error # NotReadyMsg)
    => /\ outcome.kind = "returned" => \E i \in 1..Len(log) : log[i] \in SuccessEvents
       /\ outcome.kind = "threw" => \E i \in 1..Len(log) : log[i] \in FailureEvents


\* the errors only a listener (or its absence) can produce
FromListeners == {ListenerError, UnhandledError}

\* C19: notifications are observational: whatever listeners are registered
\* and whatever they do, an operation ends as it ends for a caller whose
\* listeners are quiet: init and close return, a post that was verified
\* returns success without recovery, no call raises an error that comes
\* from a listener, and init leaves the session ready exactly when the
\* authentication probes passed
C19_ListenersDoNotSteer ==
  /\ Done("init") => outcome.kind = "returned"
  /\ Done("close") => outcome.kind = "returned"
  /\ (Done("postTweet") /\ InLog("verify:ok")) =>
       (outcome.kind = "returned" /\ ~InLog("recover"))
  /\ (pc = "done") => outcome.error \notin FromListeners
  /\ (Done("init") /\ outcome.status \in {"ready", "readyNoProfile"}) => isReady


\* a step that is a call of op from the idle session
Calls(op) == pc = "idle" /\ req'.op = op

\* C21: close is idempotent: a close on a session with a browser clears
\* browser and page, sets isReady to false, emits closed once and returns;
\* a close on a session without browser (closed before, or never
\* initialised) changes nothing of the session, emits nothing and returns
C21_CloseIdempotent ==
  [][Calls("close") =>
       /\ outcome'.kind = "returned"
       /\ IF browser
          THEN /\ ~browser' /\ page' = Null /\ ~isReady'
               /\ log' = <<"emit:closed">>
          ELSE /\ UNCHANGED <<isReady, listeners, browser, page, npages, alive, loc,
                              handlers, once>>
               /\ log' = <<>>]_vars

\* a close that found no browser has returned
C21_Witness == Done("close") /\ ~InLog("emit:closed") /\ outcome.kind = "returned"


\* the operations that need a ready session
ReadyOps == {"postTweet", "getTweetStats", "getTweetComments", "followUser",
             "unfollowUser", "searchAndLike", "setupProfile"}

\* C22: while the session is not ready (before init, after loginRequired,
\* after an init error, after close), each of the seven operations rejects
\* with the not-ready error, at once: no interaction with the page, no
\* notification, the session as it was
C22_NotReadyRejectsFirst ==
  [][\A op \in ReadyOps :
       (Calls(op) /\ ~isReady) =>
         /\ pc' = "done"
         /\ outcome' = Threw(op, NotReadyMsg)
         /\ log' = <<>>
         /\ UNCHANGED session]_vars

\* a rejected call on a session that init left at the login page
C22_Witness ==
  /\ pc = "done" /\ req.op \in ReadyOps
  /\ outcome.error = NotReadyMsg
  /\ browser /\ loc = "login"


\* how often tag stands in the log
Count(tag) == Cardinality({i \in 1..Len(log) : log[i] = tag})

\* the positions of tag in the log
At(tag) == {i \in 1..Len(log) : log[i] = tag}

\* C23: an init on a session that was not ready emits browserLaunched once
\* the browser has launched, and after it exactly one of ready,
\* loginRequired, error; isReady holds afterwards iff ready was emitted
C23_InitEventProtocol ==
  (Done("init") /\ log # <<>>) =>
    /\ InLog("launch") <=> Count("emit:browserLaunched") = 1
    /\ Count("emit:ready") + Count("emit:loginRequired") + Count("emit:error") = 1
    /\ \A i \in At("emit:browserLaunched") :
         \A j \in At("emit:ready") \cup At("emit:loginRequired") \cup At("emit:error") :
           i < j
    /\ isReady <=> InLog("emit:ready")


\* the interaction with the control of field f, as it stands in the log
Written(f) ==
  \/ f = "header" /\ InLog("upload:header")
  \/ f = "avatar" /\ InLog("upload:avatar")
  \/ f = "displayName" /\ InLog("type:displayName")
  \/ f = "bio" /\ InLog("type:bio")
  \/ f = "location" /\ InLog("type:location")
  \/ f = "website" /\ InLog("type:website")

SixFields == {"avatar", "header", "displayName", "bio", "location", "website"}

\* C24: in the result of setupProfile a field's flag is true only if the
\* field was requested and its control was found and written; the control
\* of a field that was not requested is never touched (whether the call
\* returns or raises) and its flag is false
C24_FlagsTellWhatWasWritten ==
  (pc \in {"sp_fields", "done"} /\ req.op = "setupProfile") =>
    \A f \in SixFields :
      /\ f \in outcome.flags => (f \in req.fields /\ Written(f))
      /\ f \notin req.fields => (~Written(f) /\ f \notin outcome.flags)

\* a result with a field that was written and a requested field whose
\* control was not found
C24_Witness ==
  /\ Done("setupProfile") /\ outcome.kind = "returned"
  /\ \E f, g \in req.fields :
       /\ f \in outcome.flags /\ Written(f)
       /\ g \notin outcome.flags /\ ~Written(g)


\* C25: at most one browser launched by the instance is open, and it is the
\* one the session references: no init launches a browser while the session
\* references one that was not closed (the reference would be overwritten
\* and close could no longer release the earlier browser)
C25_OneBrowserReferenced ==
  [][(Calls("init") /\ \E i \in 1..Len(log') : log'[i] = "launch")
       => ~browser]_vars


\* C26: while postTweet is in progress every native dialog the page raises
\* is accepted exactly once: none is left pending, and no handler raises
\* because the dialog was handled already
C26_EveryDialogAcceptedOnce ==
  (req.op = "postTweet") =>
    (~InLog("dialog:pending") /\ ~InLog("dialog:raised"))


C28_ScanExcludesExactlySubject ==
  (req.op = "getTweetComments" /\ pc \in {"gc_loop", "done"}) =>
    /\ scan.mainTweet \notin Comments
    /\ \A j \in 1..Len(scan.sighted) : scan.sighted[j].tweetId # req.id

\* tag stands in the sequence l
Has(l, tag) == \E i \in 1..Len(l) : l[i] = tag

\* the polls postTweet may make after the click on submit
MaxPolls(media) == IF Len(media) > 0 THEN 60 ELSE 16

\* the polls made so far, one every 500 ms
Polls == elapsed \div 500

\* C29: after the click on submit postTweet polls every 500 ms, at most 16
\* times without media and 60 times with media, and stops at the first poll
\* that finds the composition surface closed; verification is entered only
\* from such a poll.  After the last poll without closure postTweet reads
\* the toast, tries to dismiss the surface and fails with the toast text or
\* with the generic message, and verification does not run
C29_PollThenVerifyOrFail ==
  [][/\ pc = "pt_poll" =>
          (elapsed = 500 * Polls /\ Polls < MaxPolls(req.media))
     /\ (pc = "pt_poll" /\ pc' \in {"pt_poll", "pt_stuck"}) =>
          elapsed' = elapsed + 500
     /\ pc' = "pt_stuck" => (pc = "pt_poll" /\ elapsed' = 500 * MaxPolls(req.media))
     /\ pc' = "pt_verify" => (pc = "pt_poll" /\ Polls + 1 <= MaxPolls(req.media))
     /\ (pc = "pt_stuck" /\ Has(log', "read:toast")) =>
          /\ pc' = "done" /\ outcome'.kind = "threw"
          /\ outcome'.error = IF Has(log', "toast:none")
                               THEN "Tweet could not be posted"
                               ELSE "Whoops! You already said that."
          /\ Has(log', "once:dialog")
          /\ ~Has(log', "verify:ok") /\ ~Has(log', "verify:no")]_vars

\* a post with media that failed with the text of the toast
C29_Witness ==
  /\ Done("postTweet") /\ InLog("read:toast") /\ Len(req.media) > 0
  /\ outcome.error = "Whoops! You already said that."


\* the composition surface was found under the primary selector / under
\* the fallback selector; it was looked for
SurfacePrimary == InLog("wait:textarea:ok")
SurfaceFallback == InLog("wait:textbox:ok")
SurfaceProbed == SurfacePrimary \/ InLog("wait:textarea:no")

\* C30: once the composition surface was looked for, postTweet goes on to
\* type whenever the surface is there under the primary or the fallback
\* selector, and fails with 'Tweet textarea not found', without typing or
\* submitting, exactly when it is under neither
C30_FallbackSurfaceIsUsed ==
  (req.op = "postTweet" /\ SurfaceProbed) =>
    /\ (SurfacePrimary \/ SurfaceFallback) =>
         (InLog("click:textarea") /\ InLog("type:textarea"))
    /\ (~SurfacePrimary /\ ~SurfaceFallback) <=>
         (pc = "done" /\ outcome.error = "Tweet textarea not found")
    /\ outcome.error = "Tweet textarea not found" =>
         (~InLog("type:textarea") /\ ~InLog("click:tweetButton"))


DialogTags == {"dialog:accepted", "dialog:pending"}

\* the uploads in the log that raised a dialog
UploadsWithDialog ==
  {i \in At("upload") : i < Len(log) /\ log[i + 1] \in DialogTags}

UploadFailed == "Media upload failed - file may be unsupported or too large"

\* C31: the attachments are uploaded one at a time; postTweet goes on after
\* an upload iff that upload raised no dialog: the media-upload failure is
\* raised only after an upload that raised a dialog (not for a dialog
\* raised before the first upload), and an upload that raised one ends the
\* call with that failure before the post button is clicked
C31_UploadRejectionIsPerUpload ==
  (req.op = "postTweet") =>
    /\ Count("upload") <= Len(req.media)
    /\ InLog("click:tweetButton") => Count("upload") = Len(req.media)
    /\ (pc = "done" /\ outcome.error = UploadFailed) => UploadsWithDialog # {}
    /\ UploadsWithDialog # {} =>
         (pc = "done" /\ outcome.error = UploadFailed /\ ~InLog("click:tweetButton"))


\* C32: after the click on the unfollow control the direct confirmation is
\* tried first and the menu only when it is absent; in the menu only an item
\* naming the target handle is clicked; the confirmation-not-found error is
\* raised only when neither flow is available; an item that does not name
\* the target is never clicked
C32_ConfirmThenMatchingMenuItem ==
  (req.op = "unfollowUser") =>
    /\ (InLog("click:menuitem") \/ InLog("click:menuitem:only")) =>
         InLog("query:confirm:none")
    /\ InLog("click:menuitem") => InLog("query:menu:match")
    /\ (pc = "done" /\ outcome.error = "Unfollow confirmation not found") =>
         /\ InLog("query:confirm:none")
         /\ ~InLog("query:menu:match")
    /\ ~InLog("click:menuitem:only")


\* a step of either call that reads the profile page
ProbeStep == FollowProbe \/ UnfollowProbe

TargetAbsent ==
  /\ pc' = "done"
  /\ outcome'.kind = "threw"
  /\ outcome'.error = "User not found or account is suspended"
  /\ \A i \in 1..Len(log') : log'[i] # "read:followState"

TargetPresent == \E i \in 1..Len(log') : log'[i] = "read:followState"

AnyTransparentUnfollow(d) ==
  \E i \in DOMAIN d.unfollowBtns :
    d.unfollowBtns[i] \in {"rgba(0, 0, 0, 0)", "transparent"}

StatedFollowState(d) ==
  IF AnyTransparentUnfollow(d) \/ d.atMenuBtn THEN "following"
  ELSE IF d.followBtn THEN "not_following"
  ELSE "unknown"

\* C34: the follow-state probe reads following whenever the page holds an
\* unfollow-suffixed control with a transparent background, wherever it
\* stands among the controls of that suffix, or an @-labelled button with a
\* menu; not following only when it holds neither and holds a follow
\* control; unknown otherwise.  followUser and unfollowUser act on the
\* reading: no-op return, click, or failure
C34_FollowStateFromAnyControl ==
  [][/\ (FollowProbe /\ TargetPresent) =>
          CASE StatedFollowState(dom) = "following" ->
                 outcome'.status = "already_following" /\ NoClick(log')
            [] StatedFollowState(dom) = "not_following" ->
                 pc' = "fo_verify"
            [] OTHER ->
                 outcome'.error = "Could not detect follow button"
     /\ (UnfollowProbe /\ TargetPresent) =>
          CASE StatedFollowState(dom) = "following" ->
                 pc' = "un_confirm"
            [] StatedFollowState(dom) = "not_following" ->
                 outcome'.status = "not_following" /\ NoClick(log')
            [] OTHER ->
                 outcome'.error = "Could not detect follow/unfollow button"]_vars


SaveTags == {"click:save", "noclick:save"}

\* the place of a field's edit in the order header, avatar, display name,
\* bio, location, website; 0 for any other tag
EditRank(tag) ==
  CASE tag = "upload:header" -> 1
    [] tag = "upload:avatar" -> 2
    [] tag = "type:displayName" -> 3
    [] tag = "type:bio" -> 4
    [] tag = "type:location" -> 5
    [] tag = "type:website" -> 6
    [] OTHER -> 0

SaveSteps == {i \in 1..Len(log) : log[i] \in SaveTags}

C35_WitnessNoFields ==
  /\ Done("setupProfile") /\ outcome.kind = "returned"
  /\ req.fields = {}
  /\ Cardinality(SaveSteps) = 1


\* the navigation to the home timeline on a page comes after a one-shot
\* dialog acceptor was registered on that page
AcceptorBeforeGoto(onceTag, gotoTag) ==
  \A i \in 1..Len(log) :
    log[i] = gotoTag => \E j \in 1..(i - 1) : log[j] = onceTag

\* C36: on each path of the recovery (the current page responds; a sibling
\* page that responds is adopted; a new page is opened) a one-shot dialog
\* acceptor is registered on the page that is navigated, before the
\* navigation to the home timeline starts on it
C36_AcceptorOnNavigatedPage ==
  /\ AcceptorBeforeGoto("rec:once:current", "rec:goto:current")
  /\ AcceptorBeforeGoto("rec:once:adopted", "rec:goto:adopted")
  /\ AcceptorBeforeGoto("rec:once:new", "rec:goto:new")


\* C37: when postTweet has returned or raised, the dialog listener it
\* registered on the page is removed, on every exit path; so between calls
\* no postTweet dialog listener is registered on the page of the session
C37_DialogListenerRemovedAtExit ==
  /\ (pc = "done" /\ req.op = "postTweet") => handlers = 0
  /\ pc = "idle" => handlers = 0


\* getTweetComments has read the reply count of the page it collects from
Collecting ==
  /\ req.op = "getTweetComments"
  /\ InLog("read:replyCount")

\* C38: getTweetComments(id) collects from the thread page of the requested
\* id: it skips the navigation only when the page is already the status
\* page of exactly that id, and navigates otherwise, also from the status
\* page of an id that the requested id is a prefix of
C38_CollectsFromRequestedThread ==
  /\ [](Collecting => loc = "status/" \o req.id)
  /\ [][(Calls("getTweetComments") /\ InLog("read:url")')
          => (InLog("goto:status")' <=> loc # "status/" \o req'.id)]_vars


\* C39: a postTweet that reports success matched a feed item whose normal
\* form contains a non-empty prefix of the submitted text; a text whose
\* normal form is empty (decoration and whitespace only) is never reported
\* as verified
C39_VerificationNotVacuous ==
  (Done("postTweet") /\ outcome.kind = "returned") =>
    /\ CanonPrefix(req.text) # <<>>
    /\ \E i \in First10 : Rendered(i)


\* the session holds no browser and no page and is not ready, after the step
Released == ~browser' /\ page' = Null /\ ~isReady'

\* C40: when a close() call has completed, the session holds no browser and
\* no page and is not ready, and this stays so until init is called again,
\* whatever was suspended when close() was called: an init that was
\* launching does not make the session ready with a browser afterwards, and
\* a postTweet that was suspended ends by raising, attaching no page
C40_ClosedStaysClosed ==
  [][/\ (closing # "done" /\ closing' = "done") => Released
     /\ (closing = "done" /\ ~Calls("init")) => Released
     /\ (closing = "done" /\ pc \in PostTweetStages /\ pc' # pc)
          => (pc' = "done" /\ outcome'.kind = "threw")]_vars

====
